---- MODULE Spec2Model ----
(***************************************************************************)
(* bnet-auth-export: the run flow of src/main.rs (prompt x3, ApiClient::new,*)
(* exchange_session_token, restore_device_secret, hex_to_base32_nopad_upper,*)
(* build_otpauth_uri, report), the ApiClient called directly, and the pure  *)
(* helpers.  Text is a sequence of one-character strings.                   *)
(***************************************************************************)
EXTENDS Integers, Sequences, FiniteSets, TLC

VARIABLES
    mode,           \* which entry point drives the program: "run", "client", "apply"
    pc,             \* position inside run (main.rs:218-236), or "idle"
    session_token,  \* run local, main.rs:219
    serial,         \* run local, main.rs:220
    restore_code,   \* run local, main.rs:221
    bearer_token,   \* ApiClient.bearer_token, main.rs:16
    requests,       \* HTTP requests handed to the transport, in order
    stdout,         \* what print!/println! wrote, in order
    device_secret,  \* run local, main.rs:225
    base32_secret,  \* run local, main.rs:226
    result,         \* what run returned (None while it is running)
    stdin,          \* what the terminal did at each prompt, in order
    received,       \* what the transport did with each request, in order
    call,           \* the latest direct call of an operation and what it returned
    calls           \* number of direct calls made so far

vars == <<mode, pc, session_token, serial, restore_code, bearer_token, requests,
          stdout, device_secret, base32_secret, result, stdin, received, call, calls>>

-----------------------------------------------------------------------------
(* Option<T> and Result<T>                                                 *)

None == [tag |-> "None"]
Some(v) == [tag |-> "Some", val |-> v]
IsSome(o) == o.tag = "Some"

Ok(v) == [tag |-> "Ok", val |-> v]
Err(chain) == [tag |-> "Err", chain |-> chain]
IsOk(r) == r.tag = "Ok"
IsErr(r) == r.tag = "Err"

Unit == <<>>

(* A formatted message: the format string of the source, its &'static str  *)
(* argument (label or url) and its run-time text arguments.                *)
Msg(fmt, what, args) == [fmt |-> fmt, what |-> what, args |-> args]

(* anyhow's Context: the new message becomes the head of the causal chain. *)
WithContext(r, msg) == IF IsErr(r) THEN Err(<<msg>> \o r.chain) ELSE r

-----------------------------------------------------------------------------
(* Text helpers (str::trim, strip_prefix, to_ascii_lowercase, contains)    *)

White == {" ", "\t", "\n", "\r"}

RECURSIVE TrimStart(_)
TrimStart(s) ==
    IF s # <<>> /\ Head(s) \in White THEN TrimStart(Tail(s)) ELSE s

RECURSIVE TrimEnd(_)
TrimEnd(s) ==
    IF s # <<>> /\ s[Len(s)] \in White THEN TrimEnd(SubSeq(s, 1, Len(s) - 1)) ELSE s

Trim(s) == TrimEnd(TrimStart(s))

StartsWith(s, p) == Len(p) <= Len(s) /\ SubSeq(s, 1, Len(p)) = p

StripPrefix(s, p) ==
    IF StartsWith(s, p) THEN Some(SubSeq(s, Len(p) + 1, Len(s))) ELSE None

UpperAlpha == <<"A","B","C","D","E","F","G","H","I","J","K","L","M",
                "N","O","P","Q","R","S","T","U","V","W","X","Y","Z">>
LowerAlpha == <<"a","b","c","d","e","f","g","h","i","j","k","l","m",
                "n","o","p","q","r","s","t","u","v","w","x","y","z">>

AsciiLowerChar(c) ==
    IF \E i \in 1..Len(UpperAlpha) : UpperAlpha[i] = c
    THEN LowerAlpha[CHOOSE i \in 1..Len(UpperAlpha) : UpperAlpha[i] = c]
    ELSE c

ToAsciiLowercase(s) == [i \in 1..Len(s) |-> AsciiLowerChar(s[i])]

Contains(s, sub) ==
    \E i \in 1..(Len(s) - Len(sub) + 1) : SubSeq(s, i, i + Len(sub) - 1) = sub

DecimalDigits == <<"0","1","2","3","4","5","6","7","8","9">>

RECURSIVE ToDecimal(_)
ToDecimal(n) ==
    IF n < 10 THEN <<DecimalDigits[n + 1]>>
    ELSE ToDecimal(n \div 10) \o <<DecimalDigits[(n % 10) + 1]>>

(* truncate keeping one character more than max_chars *)
truncate_one_more(text, max_chars) ==
    IF Len(text) <= max_chars + 1 THEN text ELSE SubSeq(text, 1, max_chars + 1)

(* truncate, main.rs:207-209 *)
truncate(text, max_chars) ==
    IF Len(text) <= max_chars THEN text ELSE SubSeq(text, 1, max_chars)

-----------------------------------------------------------------------------
(* serde_json::from_str into a struct with one Option<String> field        *)
(* (SsoResponse, RestoreResponse; main.rs:27-30, 39-43, 159).  The grammar *)
(* covered: an object whose member values are strings without escapes,     *)
(* null or unsigned integers.  Unknown members are ignored, a missing or   *)
(* null field is None, a repeated field or a field of another type is an   *)
(* error, and so is anything but whitespace after the closing brace.       *)

DQ == "\""
EOF == ""
ParseFail == [ok |-> FALSE]

At(s, i) == IF i >= 1 /\ i <= Len(s) THEN s[i] ELSE EOF

RECURSIVE SkipWs(_, _)
SkipWs(s, i) == IF At(s, i) \in White THEN SkipWs(s, i + 1) ELSE i

(* index of the quote closing a string whose first character is at i; 0   *)
(* when the text ends, or a raw control character occurs, before it.      *)
RECURSIVE StringEnd(_, _)
StringEnd(s, i) ==
    IF i > Len(s) THEN 0
    ELSE IF s[i] = DQ THEN i
    ELSE IF s[i] \in {"\t", "\n", "\r", "\\"} THEN 0
    ELSE StringEnd(s, i + 1)

RECURSIVE DigitsEnd(_, _)
DigitsEnd(s, i) ==
    IF \E d \in 1..10 : DecimalDigits[d] = At(s, i) THEN DigitsEnd(s, i + 1) ELSE i

JsonNull == <<"n", "u", "l", "l">>

ParseValue(s, i) ==
    IF At(s, i) = DQ
    THEN LET e == StringEnd(s, i + 1) IN
         IF e = 0 THEN ParseFail
         ELSE [ok |-> TRUE, next |-> e + 1, kind |-> "string",
               val |-> SubSeq(s, i + 1, e - 1)]
    ELSE IF i + 3 <= Len(s) /\ SubSeq(s, i, i + 3) = JsonNull
    THEN [ok |-> TRUE, next |-> i + 4, kind |-> "null", val |-> <<>>]
    ELSE IF DigitsEnd(s, i) > i
    THEN [ok |-> TRUE, next |-> DigitsEnd(s, i), kind |-> "number", val |-> <<>>]
    ELSE ParseFail

(* i: where a member key is expected; seen/val: the field so far *)
RECURSIVE ParseMembers(_, _, _, _, _)
ParseMembers(s, i, field, seen, val) ==
    LET k == SkipWs(s, i) IN
    IF At(s, k) # DQ THEN ParseFail
    ELSE
    LET ke == StringEnd(s, k + 1) IN
    IF ke = 0 THEN ParseFail
    ELSE
    LET key   == SubSeq(s, k + 1, ke - 1)
        colon == SkipWs(s, ke + 1)
    IN
    IF At(s, colon) # ":" THEN ParseFail
    ELSE
    LET v == ParseValue(s, SkipWs(s, colon + 1)) IN
    IF ~v.ok THEN ParseFail
    ELSE IF key = field /\ seen THEN ParseFail
    ELSE IF key = field /\ v.kind = "number" THEN ParseFail
    ELSE
    LET seen2 == seen \/ key = field
        val2  == IF key = field
                 THEN (IF v.kind = "string" THEN Some(v.val) ELSE None)
                 ELSE val
        n     == SkipWs(s, v.next)
    IN
    IF At(s, n) = "," THEN ParseMembers(s, n + 1, field, seen2, val2)
    ELSE IF At(s, n) = "}"
    THEN (IF SkipWs(s, n + 1) = Len(s) + 1
          THEN [ok |-> TRUE, val |-> val2] ELSE ParseFail)
    ELSE ParseFail

from_str(body, field) ==
    LET open == SkipWs(body, 1) IN
    IF At(body, open) # "{" THEN ParseFail
    ELSE
    LET first == SkipWs(body, open + 1) IN
    IF At(body, first) = "}"
    THEN (IF SkipWs(body, first + 1) = Len(body) + 1
          THEN [ok |-> TRUE, val |-> None] ELSE ParseFail)
    ELSE ParseMembers(body, first, field, FALSE, None)

-----------------------------------------------------------------------------
(* Response validation, main.rs:130-172                                    *)

is_json_content_type(content_type) ==
    Contains(ToAsciiLowercase(content_type), <<"j", "s", "o", "n">>)

Missing == <<"(", "m", "i", "s", "s", "i", "n", "g", ")">>

display_content_type(content_type) ==
    IF content_type = <<>> THEN Missing ELSE content_type

is_success(status) == status >= 200 /\ status <= 299

(* parse_json_response testing the content type before the status *)
parse_json_response_type_first(response, label, body_limit, field) ==
    LET status == response.status
        content_type == IF IsSome(response.content_type)
                        THEN response.content_type.val ELSE <<>>
    IN
    IF ~response.readable
    THEN Err(<<Msg("failed reading response body", "", <<>>),
               Msg("reqwest::Error", "", <<>>)>>)
    ELSE IF ~is_json_content_type(content_type)
    THEN Err(<<Msg("{label} returned non-JSON content (Content-Type: {}). Response: {}",
                   label,
                   <<display_content_type(content_type),
                     truncate(response.body, body_limit)>>)>>)
    ELSE IF ~is_success(status)
    THEN Err(<<Msg("{label} failed with HTTP {}. Response: {}", label,
                   <<ToDecimal(status), truncate(response.body, body_limit)>>)>>)
    ELSE LET parsed == from_str(response.body, field) IN
         IF parsed.ok THEN Ok(parsed.val)
         ELSE Err(<<Msg("failed to parse {label} JSON response", label, <<>>),
                    Msg("serde_json::Error", "", <<>>)>>)

(* response: [status, content_type: Option text, body: text, readable]    *)
(* readable = FALSE: response.text() fails (the connection broke).        *)
parse_json_response(response, label, body_limit, field) ==
    LET status == response.status
        content_type == IF IsSome(response.content_type)
                        THEN response.content_type.val ELSE <<>>
    IN
    IF ~response.readable
    THEN Err(<<Msg("failed reading response body", "", <<>>),
               Msg("reqwest::Error", "", <<>>)>>)
    ELSE IF ~is_success(status)
    THEN Err(<<Msg("{label} failed with HTTP {}. Response: {}", label,
                   <<ToDecimal(status), truncate(response.body, body_limit)>>)>>)
    ELSE IF ~is_json_content_type(content_type)
    THEN Err(<<Msg("{label} returned non-JSON content (Content-Type: {}). Response: {}",
                   label,
                   <<display_content_type(content_type),
                     truncate(response.body, body_limit)>>)>>)
    ELSE LET parsed == from_str(response.body, field) IN
         IF parsed.ok THEN Ok(parsed.val)
         ELSE Err(<<Msg("failed to parse {label} JSON response", label, <<>>),
                    Msg("serde_json::Error", "", <<>>)>>)

-----------------------------------------------------------------------------
(* Secret codec, main.rs:174-193                                           *)

(* normalize_session_token without the trim after the prefix is removed *)
normalize_session_token_no_final_trim(input) ==
    LET trimmed == Trim(input)
        upper   == StripPrefix(trimmed, <<"S", "T", "=">>)
        lower   == StripPrefix(trimmed, <<"s", "t", "=">>)
    IN IF IsSome(upper) THEN upper.val
       ELSE IF IsSome(lower) THEN lower.val
       ELSE trimmed

(* normalize_session_token, main.rs:174-182 *)
normalize_session_token(input) ==
    LET trimmed == Trim(input)
        upper   == StripPrefix(trimmed, <<"S", "T", "=">>)
        lower   == StripPrefix(trimmed, <<"s", "t", "=">>)
    IN Trim(IF IsSome(upper) THEN upper.val
            ELSE IF IsSome(lower) THEN lower.val
            ELSE trimmed)

HexLower == <<"0","1","2","3","4","5","6","7","8","9","a","b","c","d","e","f">>
HexUpper == <<"0","1","2","3","4","5","6","7","8","9","A","B","C","D","E","F">>

(* hex crate, val(): the value of one hex digit, -1 for any other character *)
HexVal(c) ==
    IF \E i \in 1..16 : HexLower[i] = c
    THEN (CHOOSE i \in 1..16 : HexLower[i] = c) - 1
    ELSE IF \E i \in 1..16 : HexUpper[i] = c
    THEN (CHOOSE i \in 1..16 : HexUpper[i] = c) - 1
    ELSE -1

(* hex::decode that drops a trailing half byte and reads any other        *)
(* character as the digit 0                                                *)
hex_decode_forgiving(text) ==
    Ok([k \in 1..(Len(text) \div 2) |->
          16 * (IF HexVal(text[2 * k - 1]) < 0 THEN 0 ELSE HexVal(text[2 * k - 1]))
          + (IF HexVal(text[2 * k]) < 0 THEN 0 ELSE HexVal(text[2 * k]))])

(* hex::decode: odd length, then any invalid digit, is an error *)
hex_decode(text) ==
    IF Len(text) % 2 # 0 THEN Err(<<Msg("Odd number of digits", "", <<>>)>>)
    ELSE IF \E i \in 1..Len(text) : HexVal(text[i]) < 0
    THEN Err(<<Msg("Invalid character", "", <<>>)>>)
    ELSE Ok([k \in 1..(Len(text) \div 2) |->
                16 * HexVal(text[2 * k - 1]) + HexVal(text[2 * k])])

Base32Alphabet == <<"A","B","C","D","E","F","G","H","I","J","K","L","M",
                    "N","O","P","Q","R","S","T","U","V","W","X","Y","Z",
                    "2","3","4","5","6","7">>

(* BitAt reading each byte from its least significant bit *)
BitAt_lsb_first(bytes, k) ==
    IF k > 8 * Len(bytes) THEN 0
    ELSE (bytes[((k - 1) \div 8) + 1] \div (2 ^ ((k - 1) % 8))) % 2

(* bit k (from 1, most significant first) of a byte string; 0 past its end *)
BitAt(bytes, k) ==
    IF k > 8 * Len(bytes) THEN 0
    ELSE (bytes[((k - 1) \div 8) + 1] \div (2 ^ (7 - ((k - 1) % 8)))) % 2

(* the padded encoding (data_encoding BASE32): '=' up to a multiple of 8 *)
base32_padded_encode(bytes) ==
    LET m == (8 * Len(bytes) + 4) \div 5 IN
    [j \in 1..(8 * ((m + 7) \div 8)) |->
        IF j > m THEN "="
        ELSE Base32Alphabet[1 + 16 * BitAt(bytes, 5 * j - 4) + 8 * BitAt(bytes, 5 * j - 3)
                              + 4 * BitAt(bytes, 5 * j - 2) + 2 * BitAt(bytes, 5 * j - 1)
                              + BitAt(bytes, 5 * j)]]

(* data_encoding BASE32_NOPAD.encode: 5 bits a symbol, the last symbol     *)
(* zero-filled, no '=' appended.                                           *)
base32_nopad_encode(bytes) ==
    [j \in 1..((8 * Len(bytes) + 4) \div 5) |->
        Base32Alphabet[1 + 16 * BitAt(bytes, 5 * j - 4) + 8 * BitAt(bytes, 5 * j - 3)
                         + 4 * BitAt(bytes, 5 * j - 2) + 2 * BitAt(bytes, 5 * j - 1)
                         + BitAt(bytes, 5 * j)]]

(* hex_to_base32_nopad_upper that encodes nothing when the decode fails *)
hex_to_base32_nopad_upper_lenient(hex_secret) ==
    LET bytes == hex_decode(Trim(hex_secret))
    IN IF IsErr(bytes) THEN Ok(base32_nopad_encode(<<>>))
       ELSE Ok(base32_nopad_encode(bytes.val))

(* hex_to_base32_nopad_upper, main.rs:184-187 *)
hex_to_base32_nopad_upper(hex_secret) ==
    LET bytes == WithContext(hex_decode(Trim(hex_secret)),
                             Msg("deviceSecret is not valid hex", "", <<>>))
    IN IF IsErr(bytes) THEN bytes ELSE Ok(base32_nopad_encode(bytes.val))

OtpauthPrefix == <<"o","t","p","a","u","t","h",":","/","/","t","o","t","p","/",
                   "B","a","t","t","l","e",".","n","e","t",":">>
OtpauthSecret == <<"?","s","e","c","r","e","t","=">>
OtpauthSuffix == <<"&","i","s","s","u","e","r","=","B","a","t","t","l","e",".","n","e","t",
                   "&","d","i","g","i","t","s","=","8",
                   "&","a","l","g","o","r","i","t","h","m","=","S","H","A","1",
                   "&","p","e","r","i","o","d","=","3","0">>

RECURSIVE PercentEncoded(_)
PercentEncoded(text) ==
    IF text = <<>> THEN <<>>
    ELSE (IF Head(text) \in {" ", "&"} THEN <<"%", "2", "0">> ELSE <<Head(text)>>)
         \o PercentEncoded(Tail(text))

(* build_otpauth_uri with its arguments percent-encoded *)
build_otpauth_uri_escaping(serial_, base32_secret_) ==
    OtpauthPrefix \o PercentEncoded(serial_) \o OtpauthSecret
        \o PercentEncoded(base32_secret_) \o OtpauthSuffix

(* build_otpauth_uri, main.rs:189-193 *)
build_otpauth_uri(serial_, base32_secret_) ==
    OtpauthPrefix \o serial_ \o OtpauthSecret \o base32_secret_ \o OtpauthSuffix

-----------------------------------------------------------------------------
(* ApiClient, main.rs:9-128                                                *)

SSO_URL == "https://oauth.battle.net/oauth/sso"
AUTH_BASE_URL == "https://authenticator-rest-api.bnet-identity.blizzard.net/v1/authenticator"
CLIENT_ID == "baedda12fe054e4abdfc3ad7bdea970a"

SsoBodyLimit == 500
RestoreBodyLimit == 1000

AccessTokenField == <<"a","c","c","e","s","s","_","t","o","k","e","n">>
DeviceSecretField == <<"d","e","v","i","c","e","S","e","c","r","e","t">>

Bearer == <<"B","e","a","r","e","r"," ">>

(* the same without .filter(|value| !value.is_empty()) *)
TrimmedNonEmpty_unfiltered(opt) ==
    IF IsSome(opt) THEN Some(Trim(opt.val)) ELSE None

(* the same without .map(str::trim) on the value kept *)
TrimmedNonEmpty_untrimmed(opt) ==
    IF IsSome(opt) /\ Trim(opt.val) # <<>> THEN Some(opt.val) ELSE None

(* Option<String>.as_deref().map(str::trim).filter(|v| !v.is_empty()),     *)
(* main.rs:83-87 and 113-117                                               *)
TrimmedNonEmpty(opt) ==
    IF IsSome(opt) /\ Trim(opt.val) # <<>> THEN Some(Trim(opt.val)) ELSE None

(* The request exchange_session_token builds, main.rs:63-78 *)
SsoRequest(session_token_) ==
    [url |-> SSO_URL,
     authorization |-> None,
     content_type |-> "application/x-www-form-urlencoded; charset=utf-8",
     body |-> [client_id |-> CLIENT_ID, grant_type |-> "client_sso",
               scope |-> "auth.authenticator",
               token |-> normalize_session_token(session_token_)]]

(* RestoreRequest with the two fields taken from each other's argument *)
RestoreRequest_swapped(token, serial_, restore_code_) ==
    [url |-> AUTH_BASE_URL \o "/device",
     authorization |-> Some(Bearer \o token),
     content_type |-> "application/json",
     body |-> [serial |-> restore_code_, restoreCode |-> serial_]]

(* The request restore_device_secret builds, main.rs:100-108, 123-127 *)
RestoreRequest(token, serial_, restore_code_) ==
    [url |-> AUTH_BASE_URL \o "/device",
     authorization |-> Some(Bearer \o token),
     content_type |-> "application/json",
     body |-> [serial |-> serial_, restoreCode |-> restore_code_]]

(* outcome: what the transport does with the request: [kind |->            *)
(* "transport_error"] or [kind |-> "response", response |-> ...].          *)
(* Each operation yields [ret, bearer_token, sent]: its return value, the  *)
(* client's bearer_token afterwards and the requests it handed to send().  *)

(* exchange_session_token that forgets the stored token when it fails *)
exchange_session_token_clearing(bearer, session_token_, outcome) ==
    LET request == SsoRequest(session_token_) IN
    IF outcome.kind = "transport_error"
    THEN [ret |-> Err(<<Msg("request failed for Battle.net SSO token exchange", "", <<>>),
                        Msg("reqwest::Error", "", <<>>)>>),
          bearer_token |-> None, sent |-> <<request>>]
    ELSE
    LET parsed == parse_json_response(outcome.response, "SSO token exchange",
                                      SsoBodyLimit, AccessTokenField)
    IN
    IF IsErr(parsed)
    THEN [ret |-> parsed, bearer_token |-> None, sent |-> <<request>>]
    ELSE
    LET access_token == TrimmedNonEmpty(parsed.val) IN
    IF ~IsSome(access_token)
    THEN [ret |-> Err(<<Msg("SSO response did not include access_token", "", <<>>)>>),
          bearer_token |-> None, sent |-> <<request>>]
    ELSE [ret |-> Ok(Unit), bearer_token |-> Some(access_token.val), sent |-> <<request>>]

(* exchange_session_token, main.rs:62-92 *)
exchange_session_token(bearer, session_token_, outcome) ==
    LET request == SsoRequest(session_token_) IN
    IF outcome.kind = "transport_error"
    THEN [ret |-> Err(<<Msg("request failed for Battle.net SSO token exchange", "", <<>>),
                        Msg("reqwest::Error", "", <<>>)>>),
          bearer_token |-> bearer, sent |-> <<request>>]
    ELSE
    LET parsed == parse_json_response(outcome.response, "SSO token exchange",
                                      SsoBodyLimit, AccessTokenField)
    IN
    IF IsErr(parsed)
    THEN [ret |-> parsed, bearer_token |-> bearer, sent |-> <<request>>]
    ELSE
    LET access_token == TrimmedNonEmpty(parsed.val) IN
    IF ~IsSome(access_token)
    THEN [ret |-> Err(<<Msg("SSO response did not include access_token", "", <<>>)>>),
          bearer_token |-> bearer, sent |-> <<request>>]
    ELSE [ret |-> Ok(Unit), bearer_token |-> Some(access_token.val), sent |-> <<request>>]

(* restore_device_secret once the bearer token is in hand, main.rs:100-120 *)
restore_with_token(bearer, token, serial_, restore_code_, outcome) ==
    LET request == RestoreRequest(token, serial_, restore_code_) IN
    IF outcome.kind = "transport_error"
    THEN [ret |-> Err(<<Msg("request failed for {url}", request.url, <<>>),
                        Msg("reqwest::Error", "", <<>>)>>),
          bearer_token |-> bearer, sent |-> <<request>>]
    ELSE
    LET parsed == parse_json_response(outcome.response, "restore request",
                                      RestoreBodyLimit, DeviceSecretField)
    IN
    IF IsErr(parsed)
    THEN [ret |-> parsed, bearer_token |-> bearer, sent |-> <<request>>]
    ELSE
    LET secret == TrimmedNonEmpty(parsed.val) IN
    IF ~IsSome(secret)
    THEN [ret |-> Err(<<Msg("restore response missing deviceSecret", "", <<>>)>>),
          bearer_token |-> bearer, sent |-> <<request>>]
    ELSE [ret |-> Ok(secret.val), bearer_token |-> bearer, sent |-> <<request>>]

(* restore_device_secret without the check of main.rs:95-98 *)
restore_device_secret_unchecked(bearer, serial_, restore_code_, outcome) ==
    restore_with_token(bearer, IF IsSome(bearer) THEN bearer.val ELSE <<>>,
                       serial_, restore_code_, outcome)

(* restore_device_secret, main.rs:94-121 *)
restore_device_secret(bearer, serial_, restore_code_, outcome) ==
    IF ~IsSome(bearer)
    THEN [ret |-> Err(<<Msg("bearer token not set; SSO token exchange must run first",
                            "", <<>>)>>),
          bearer_token |-> bearer, sent |-> <<>>]
    ELSE restore_with_token(bearer, bearer.val, serial_, restore_code_, outcome)

-----------------------------------------------------------------------------
(* Terminal side of run, main.rs:195-216                                   *)

(* prompt, main.rs:195-205.  io: what the terminal does: the flush fails,  *)
(* read_line fails, or a line (empty at end of input) is read.             *)
prompt(label, io) ==
    LET printed == <<Msg("{label}", label, <<>>)>> IN
    IF io.kind = "flush_error"
    THEN [ret |-> Err(<<Msg("failed to flush stdout", "", <<>>),
                        Msg("io::Error", "", <<>>)>>), printed |-> printed]
    ELSE IF io.kind = "read_error"
    THEN [ret |-> Err(<<Msg("failed to read input", "", <<>>),
                        Msg("io::Error", "", <<>>)>>), printed |-> printed]
    ELSE [ret |-> Ok(Trim(io.line)), printed |-> printed]

(* ensure_non_empty without the test of main.rs:212-214 *)
ensure_non_empty_unchecked(value, field_name) == Ok(value)

(* ensure_non_empty, main.rs:211-216 *)
ensure_non_empty(value, field_name) ==
    IF value = <<>>
    THEN Err(<<Msg("{field_name} is required", field_name, <<>>)>>)
    ELSE Ok(value)

(* prompt(..)? then ensure_non_empty(..)?, main.rs:219-221 *)
prompt_required(label, field_name, io) ==
    LET p == prompt(label, io) IN
    [ret |-> IF IsErr(p.ret) THEN p.ret ELSE ensure_non_empty(p.ret.val, field_name),
     printed |-> p.printed]

(* ApiClient::new, main.rs:46-60: the client starts without a bearer token *)
ApiClient_new(built) ==
    IF built THEN Ok(None)
    ELSE Err(<<Msg("failed to build HTTP client", "", <<>>),
               Msg("reqwest::Error", "", <<>>)>>)

(* the success report, main.rs:229-233 *)
Report(serial_, otpauth) ==
    <<Msg("\nBattle.net export succeeded\n", "", <<>>),
      Msg("Serial: {serial}\n", "", <<serial_>>),
      Msg("TOTP settings: SHA1 / 8 digits / 30s\n", "", <<>>),
      Msg("\notpauth URI (paste into your authenticator app):\n", "", <<>>),
      Msg("{otpauth}\n", "", <<otpauth>>)>>

-----------------------------------------------------------------------------
(* The environment: what the terminal and the two servers may do           *)

Quote(t) == <<DQ>> \o t \o <<DQ>>
JsonObject(field, value) == <<"{">> \o Quote(field) \o <<":">> \o value \o <<"}">>

Html == <<"<","h","t","m","l",">">>
LongBody == [i \in 1..(RestoreBodyLimit + 1) |-> "x"]

Lines ==
    { <<>>,
      <<" ", "\n">>,
      <<"a", "b", "\n">>,
      <<" ", " ", "S", "T", "=", "a", "b", " ", "\n">>,
      <<"S", "T", "=", "\n">>,
      <<"c", "9", "\r", "\n">> }

StdinEvents ==
    {[kind |-> "flush_error"], [kind |-> "read_error"]}
    \cup {[kind |-> "line", line |-> l] : l \in Lines}

ApplicationJson == <<"a","p","p","l","i","c","a","t","i","o","n","/","j","s","o","n">>
TextJsonMixedCase == <<"t","e","x","t","/","J","S","o","n",";"," ","q">>
TextHtml == <<"t","e","x","t","/","h","t","m","l">>

Statuses == {200, 204, 401}
ContentTypes == {None, Some(<<>>), Some(ApplicationJson), Some(TextJsonMixedCase),
                 Some(TextHtml)}

SsoBodies ==
    { JsonObject(AccessTokenField, Quote(<<"t", "k">>)),
      JsonObject(AccessTokenField, Quote(<<" ", "t", "2", " ">>)),
      JsonObject(AccessTokenField, Quote(<<>>)),
      JsonObject(AccessTokenField, Quote(<<" ", " ">>)),
      JsonObject(AccessTokenField, JsonNull),
      JsonObject(AccessTokenField, <<"7">>),
      <<"{", "}">>,
      <<" ", "{">> \o Quote(<<"x">>) \o <<":", "1", ",", " ">>
          \o Quote(AccessTokenField) \o <<" ", ":", " ">> \o Quote(<<"t", "k">>)
          \o <<"}", "\n">>,
      JsonObject(AccessTokenField, Quote(<<"t", "k">>)) \o <<"x">>,
      Html,
      LongBody }

RestoreBodies ==
    { JsonObject(DeviceSecretField, Quote(<<"0", "a">>)),
      JsonObject(DeviceSecretField, Quote(<<" ", "D", "e", "a", "d", "B", "E", " ">>)),
      JsonObject(DeviceSecretField, Quote(<<"0", "a", "F">>)),
      JsonObject(DeviceSecretField, Quote(<<"z", "z">>)),
      JsonObject(DeviceSecretField, Quote(<<>>)),
      JsonObject(DeviceSecretField, Quote(<<" ">>)),
      JsonObject(DeviceSecretField, JsonNull),
      JsonObject(DeviceSecretField, <<"7">>),
      <<"{", "}">>,
      <<"{">> \o Quote(DeviceSecretField) \o <<":">> \o Quote(<<"0", "a">>) \o <<",">>
          \o Quote(DeviceSecretField) \o <<":">> \o Quote(<<"0", "b">>) \o <<"}">>,
      Html,
      LongBody }

Responses(statuses, content_types, bodies) ==
    {[status |-> st, content_type |-> ct, body |-> b, readable |-> TRUE] :
        st \in statuses, ct \in content_types, b \in bodies}
    \cup {[status |-> st, content_type |-> None, body |-> <<>>, readable |-> FALSE] :
        st \in statuses}

Outcomes(responses) ==
    {[kind |-> "transport_error"]}
    \cup {[kind |-> "response", response |-> r] : r \in responses}

(* every combination, for the operations applied once *)
SsoOutcomes == Outcomes(Responses(Statuses, ContentTypes, SsoBodies))
RestoreOutcomes == Outcomes(Responses(Statuses, ContentTypes, RestoreBodies))

(* one or two of each class of answer, for the flows of several steps *)
FlowSsoOutcomes ==
    Outcomes(Responses({200, 401}, {None, Some(ApplicationJson)},
        { JsonObject(AccessTokenField, Quote(<<"t", "k">>)),
          JsonObject(AccessTokenField, Quote(<<" ", "t", "2", " ">>)),
          JsonObject(AccessTokenField, Quote(<<>>)),
          Html }))

(* a body that repeats a field of the request it answers *)
EchoBody ==
    JsonObject(<<"r", "e", "s", "t", "o", "r", "e", "C", "o", "d", "e">>,
               Quote(<<"a", "b">>))

FlowRestoreOutcomes ==
    Outcomes(Responses({200, 401}, {None, Some(ApplicationJson)},
        { JsonObject(DeviceSecretField, Quote(<<"0", "a">>)),
          JsonObject(DeviceSecretField, Quote(<<" ", "D", "e", "a", "d", "B", "E", " ">>)),
          JsonObject(DeviceSecretField, Quote(<<"0", "a", "F">>)),
          JsonObject(DeviceSecretField, Quote(<<"z", "z">>)),
          JsonObject(DeviceSecretField, Quote(<<" ">>)),
          JsonObject(DeviceSecretField, Quote(<<>>)),
          JsonObject(DeviceSecretField, JsonNull),
          <<"{", "}">>,
          EchoBody,
          Html }))

-----------------------------------------------------------------------------
(* run, main.rs:218-236, one step per statement                            *)

Return(r) == result' = r /\ pc' = "done"

PromptSessionToken ==
    /\ mode = "run" /\ pc = "prompt_session"
    /\ \E io \in StdinEvents :
        LET p == prompt_required("Session Token (ST=...): ", "session token", io) IN
        /\ stdin' = Append(stdin, io)
        /\ stdout' = stdout \o p.printed
        /\ IF IsOk(p.ret)
           THEN session_token' = Some(p.ret.val) /\ pc' = "prompt_serial"
                /\ UNCHANGED result
           ELSE Return(p.ret) /\ UNCHANGED session_token
    /\ UNCHANGED <<mode, serial, restore_code, bearer_token, requests,
                   device_secret, base32_secret, received, call, calls>>

PromptSerial ==
    /\ mode = "run" /\ pc = "prompt_serial"
    /\ \E io \in StdinEvents :
        LET p == prompt_required("Authenticator Serial: ", "authenticator serial", io) IN
        /\ stdin' = Append(stdin, io)
        /\ stdout' = stdout \o p.printed
        /\ IF IsOk(p.ret)
           THEN serial' = Some(p.ret.val) /\ pc' = "prompt_restore"
                /\ UNCHANGED result
           ELSE Return(p.ret) /\ UNCHANGED serial
    /\ UNCHANGED <<mode, session_token, restore_code, bearer_token, requests,
                   device_secret, base32_secret, received, call, calls>>

PromptRestoreCode ==
    /\ mode = "run" /\ pc = "prompt_restore"
    /\ \E io \in StdinEvents :
        LET p == prompt_required("Restore Code: ", "restore code", io) IN
        /\ stdin' = Append(stdin, io)
        /\ stdout' = stdout \o p.printed
        /\ IF IsOk(p.ret)
           THEN restore_code' = Some(p.ret.val) /\ pc' = "new"
                /\ UNCHANGED result
           ELSE Return(p.ret) /\ UNCHANGED restore_code
    /\ UNCHANGED <<mode, session_token, serial, bearer_token, requests,
                   device_secret, base32_secret, received, call, calls>>

NewClient ==
    /\ mode = "run" /\ pc = "new"
    /\ \E built \in BOOLEAN :
        LET api == ApiClient_new(built) IN
        IF IsOk(api)
        THEN bearer_token' = api.val /\ pc' = "exchange" /\ UNCHANGED result
        ELSE Return(api) /\ UNCHANGED bearer_token
    /\ UNCHANGED <<mode, session_token, serial, restore_code, requests, stdout,
                   device_secret, base32_secret, stdin, received, call, calls>>

(* Exchange that sends the request again after a failure *)
Exchange_retrying ==
    /\ mode = "run" /\ pc = "exchange"
    /\ \E outcome \in FlowSsoOutcomes :
        LET r == exchange_session_token(bearer_token, session_token.val, outcome) IN
        /\ bearer_token' = r.bearer_token
        /\ requests' = requests \o r.sent
        /\ received' = IF r.sent = <<>> THEN received ELSE Append(received, outcome)
        /\ IF IsOk(r.ret)
           THEN pc' = "restore" /\ UNCHANGED result
           ELSE IF Len(requests) = 0
           THEN pc' = "exchange" /\ UNCHANGED result
           ELSE Return(r.ret)
    /\ UNCHANGED <<mode, session_token, serial, restore_code, stdout,
                   device_secret, base32_secret, stdin, call, calls>>

Exchange ==
    /\ mode = "run" /\ pc = "exchange"
    /\ \E outcome \in FlowSsoOutcomes :
        LET r == exchange_session_token(bearer_token, session_token.val, outcome) IN
        /\ bearer_token' = r.bearer_token
        /\ requests' = requests \o r.sent
        /\ received' = IF r.sent = <<>> THEN received ELSE Append(received, outcome)
        /\ IF IsOk(r.ret)
           THEN pc' = "restore" /\ UNCHANGED result
           ELSE Return(r.ret)
    /\ UNCHANGED <<mode, session_token, serial, restore_code, stdout,
                   device_secret, base32_secret, stdin, call, calls>>

Restore ==
    /\ mode = "run" /\ pc = "restore"
    /\ \E outcome \in FlowRestoreOutcomes :
        LET r == restore_device_secret(bearer_token, serial.val, restore_code.val,
                                       outcome) IN
        /\ bearer_token' = r.bearer_token
        /\ requests' = requests \o r.sent
        /\ received' = IF r.sent = <<>> THEN received ELSE Append(received, outcome)
        /\ IF IsOk(r.ret)
           THEN device_secret' = Some(r.ret.val) /\ pc' = "encode"
                /\ UNCHANGED result
           ELSE Return(r.ret) /\ UNCHANGED device_secret
    /\ UNCHANGED <<mode, session_token, serial, restore_code, stdout,
                   base32_secret, stdin, call, calls>>

(* Encode that prints the head of the report before converting the secret *)
Encode_reporting_first ==
    /\ mode = "run" /\ pc = "encode"
    /\ stdout' = stdout \o SubSeq(Report(serial.val, <<>>), 1, 3)
    /\ LET r == hex_to_base32_nopad_upper(device_secret.val) IN
        IF IsOk(r)
        THEN base32_secret' = Some(r.val) /\ pc' = "report" /\ UNCHANGED result
        ELSE Return(r) /\ UNCHANGED base32_secret
    /\ UNCHANGED <<mode, session_token, serial, restore_code, bearer_token, requests,
                   device_secret, stdin, received, call, calls>>

Encode ==
    /\ mode = "run" /\ pc = "encode"
    /\ LET r == hex_to_base32_nopad_upper(device_secret.val) IN
        IF IsOk(r)
        THEN base32_secret' = Some(r.val) /\ pc' = "report" /\ UNCHANGED result
        ELSE Return(r) /\ UNCHANGED base32_secret
    /\ UNCHANGED <<mode, session_token, serial, restore_code, bearer_token, requests,
                   stdout, device_secret, stdin, received, call, calls>>

ReportSuccess ==
    /\ mode = "run" /\ pc = "report"
    /\ stdout' = stdout \o Report(serial.val,
                                  build_otpauth_uri(serial.val, base32_secret.val))
    /\ Return(Ok(Unit))
    /\ UNCHANGED <<mode, session_token, serial, restore_code, bearer_token, requests,
                   device_secret, base32_secret, stdin, received, call, calls>>

NoCall == [op |-> "none"]

(* nothing has run yet: no local is bound, nothing was printed or sent *)
Idle ==
    /\ session_token = None /\ serial = None /\ restore_code = None
    /\ requests = <<>> /\ stdout = <<>>
    /\ device_secret = None /\ base32_secret = None
    /\ result = None
    /\ stdin = <<>> /\ received = <<>>
    /\ calls = 0

Init ==
    /\ mode = "run" /\ pc = "prompt_session"
    /\ bearer_token = None
    /\ call = NoCall
    /\ Idle

Next ==
    \/ PromptSessionToken
    \/ PromptSerial
    \/ PromptRestoreCode
    \/ NewClient
    \/ Exchange
    \/ Restore
    \/ Encode
    \/ ReportSuccess

Spec == Init /\ [][Next]_vars

-----------------------------------------------------------------------------
(* The ApiClient driven directly: any order of its two operations on one   *)
(* client, as a caller other than run (a test) may use it.                 *)

MaxCalls == 3

ClientSessionTokens == {<<"S", "T", "=", "a", "b">>}
ClientSerials == {<<"c", "9">>}
ClientRestoreCodes == {<<"a", "b">>}

(* the answers a client called several times may get: each class once *)
ClientSsoOutcomes ==
    Outcomes(Responses({200, 401}, {Some(ApplicationJson)},
                 { JsonObject(AccessTokenField, Quote(<<"t", "k">>)),
                   JsonObject(AccessTokenField, Quote(<<" ", "t", "2", " ">>)),
                   JsonObject(AccessTokenField, Quote(<<>>)),
                   <<"{", "}">>,
                   Html })
             \cup Responses({200}, {None},
                 { JsonObject(AccessTokenField, Quote(<<"t", "k">>)) }))

ClientRestoreOutcomes ==
    Outcomes(Responses({200, 401}, {Some(ApplicationJson)},
                 { JsonObject(DeviceSecretField, Quote(<<"0", "a">>)),
                   JsonObject(DeviceSecretField, Quote(<<" ">>)),
                   Html })
             \cup Responses({200}, {None},
                 { JsonObject(DeviceSecretField, Quote(<<"0", "a">>)) }))

CallExchange ==
    /\ mode = "client" /\ calls < MaxCalls
    /\ \E st \in ClientSessionTokens, outcome \in ClientSsoOutcomes :
        LET r == exchange_session_token(bearer_token, st, outcome) IN
        /\ bearer_token' = r.bearer_token
        /\ requests' = requests \o r.sent
        /\ received' = IF r.sent = <<>> THEN received ELSE Append(received, outcome)
        /\ call' = [op |-> "exchange_session_token", before |-> bearer_token,
                    args |-> <<st>>, outcome |-> outcome, ret |-> r.ret,
                    sent |-> r.sent]
    /\ calls' = calls + 1
    /\ UNCHANGED <<mode, pc, session_token, serial, restore_code, stdout,
                   device_secret, base32_secret, result, stdin>>

CallRestore ==
    /\ mode = "client" /\ calls < MaxCalls
    /\ \E sn \in ClientSerials, rc \in ClientRestoreCodes,
          outcome \in ClientRestoreOutcomes :
        LET r == restore_device_secret(bearer_token, sn, rc, outcome) IN
        /\ bearer_token' = r.bearer_token
        /\ requests' = requests \o r.sent
        /\ received' = IF r.sent = <<>> THEN received ELSE Append(received, outcome)
        /\ call' = [op |-> "restore_device_secret", before |-> bearer_token,
                    args |-> <<sn, rc>>,
                    outcome |-> IF r.sent = <<>> THEN None ELSE outcome,
                    ret |-> r.ret, sent |-> r.sent]
    /\ calls' = calls + 1
    /\ UNCHANGED <<mode, pc, session_token, serial, restore_code, stdout,
                   device_secret, base32_secret, result, stdin>>

(* ApiClient::new() has returned a client: bearer_token is None *)
InitClient ==
    /\ mode = "client" /\ pc = "idle"
    /\ bearer_token = ApiClient_new(TRUE).val
    /\ call = NoCall
    /\ Idle

NextClient ==
    \/ CallExchange
    \/ CallRestore

SpecClient == InitClient /\ [][NextClient]_vars

-----------------------------------------------------------------------------
(* One operation applied once to each input of a bounded set               *)

MaxHexLen == 6

HexAlphabet == {"0", "a", "A", "F", "g", " "}

HexInputs == UNION {[1..n -> HexAlphabet] : n \in 0..MaxHexLen}

Labels == {[label |-> "SSO token exchange", body_limit |-> SsoBodyLimit,
            field |-> AccessTokenField, responses |-> SsoOutcomes],
           [label |-> "restore request", body_limit |-> RestoreBodyLimit,
            field |-> DeviceSecretField, responses |-> RestoreOutcomes]}

MaxTokenLen == 5

TokenAlphabet == {" ", "S", "T", "=", "s", "t", "a"}

TokenInputs ==
    UNION {[1..n -> TokenAlphabet] : n \in 0..MaxTokenLen}
    \cup {<<" ", " ", "S", "T", "=", "a", "b", "c", "1", "2", "3", " ", " ">>,
          <<"a", "b", "c", "1", "2", "3">>}

ApplySessionTokens ==
    {<<"S", "T", "=", "a", "b">>, <<" ", "s", "t", "=", " ", "a", " ">>,
     <<"a", "b">>, <<"S", "T", "=">>}

MaxUriTextLen == 2

UriAlphabet == {"1", "-", " ", "&", "A"}

UriTexts == UNION {[1..n -> UriAlphabet] : n \in 0..MaxUriTextLen}

UriInputs ==
    {[serial |-> a, base32_secret |-> b] : a \in UriTexts, b \in UriTexts}
    \cup {[serial |-> <<"1","2","3","4","-","5","6","7","8","-","9","0","1","2">>,
           base32_secret |-> <<"J","B","S","W","Y","3","D","P","E","H","P","K","3","P",
                               "X","P">>]}

(* a body of n characters in which a shifted copy differs from a prefix *)
PatternBody(n) == [i \in 1..n |-> DecimalDigits[(i % 7) + 1]]

BoundaryResponses ==
    Responses({200, 401}, {None, Some(ApplicationJson)},
              {PatternBody(SsoBodyLimit - 1), PatternBody(SsoBodyLimit),
               PatternBody(SsoBodyLimit + 1), PatternBody(RestoreBodyLimit),
               PatternBody(RestoreBodyLimit + 1)})

ApplySsoOutcomes == SsoOutcomes \cup Outcomes(BoundaryResponses)
ApplyRestoreOutcomes == RestoreOutcomes \cup Outcomes(BoundaryResponses)

Operations ==
    {"hex_to_base32_nopad_upper", "normalize_session_token", "build_otpauth_uri",
     "parse_json_response", "exchange_session_token", "restore_device_secret"}

Inputs(fn) ==
    CASE fn = "hex_to_base32_nopad_upper" -> HexInputs
      [] fn = "normalize_session_token" -> TokenInputs
      [] fn = "build_otpauth_uri" -> UriInputs
      [] fn = "parse_json_response" ->
            {[response |-> o.response, label |-> l.label,
              body_limit |-> l.body_limit, field |-> l.field] :
                o \in {x \in SsoOutcomes \cup RestoreOutcomes : x.kind = "response"},
                l \in Labels}
      [] fn = "exchange_session_token" ->
            {[bearer |-> b, session_token |-> st, outcome |-> o] :
                b \in {None, Some(<<"o", "l", "d">>)}, st \in ApplySessionTokens,
                o \in ApplySsoOutcomes}
      [] fn = "restore_device_secret" ->
            {[bearer |-> b, serial |-> sn, restore_code |-> rc, outcome |-> o] :
                b \in {None, Some(<<"t", "k">>)}, sn \in ClientSerials,
                rc \in ClientRestoreCodes, o \in ApplyRestoreOutcomes}

Pending(fn) == mode = "apply" /\ call.op = "input" /\ call.fn = fn

Applied(ret) ==
    /\ call' = [op |-> "applied", fn |-> call.fn, arg |-> call.arg, ret |-> ret]
    /\ calls' = calls + 1
    /\ UNCHANGED <<mode, pc, session_token, serial, restore_code, bearer_token,
                   requests, stdout, device_secret, base32_secret, result, stdin,
                   received>>

ApplyHexToBase32 ==
    /\ Pending("hex_to_base32_nopad_upper")
    /\ Applied(hex_to_base32_nopad_upper(call.arg))

ApplyParseJsonResponse ==
    /\ Pending("parse_json_response")
    /\ Applied(parse_json_response(call.arg.response, call.arg.label,
                                   call.arg.body_limit, call.arg.field))

ApplyExchange ==
    /\ Pending("exchange_session_token")
    /\ Applied(exchange_session_token(call.arg.bearer, call.arg.session_token,
                                      call.arg.outcome))

ApplyRestore ==
    /\ Pending("restore_device_secret")
    /\ Applied(restore_device_secret(call.arg.bearer, call.arg.serial,
                                     call.arg.restore_code, call.arg.outcome))

ApplyNormalize ==
    /\ Pending("normalize_session_token")
    /\ Applied(normalize_session_token(call.arg))

ApplyBuildUri ==
    /\ Pending("build_otpauth_uri")
    /\ Applied(build_otpauth_uri(call.arg.serial, call.arg.base32_secret))

InitApply ==
    /\ mode = "apply" /\ pc = "idle"
    /\ bearer_token = None
    /\ \E fn \in Operations : \E arg \in Inputs(fn) :
            call = [op |-> "input", fn |-> fn, arg |-> arg]
    /\ Idle

NextApply ==
    \/ ApplyHexToBase32
    \/ ApplyParseJsonResponse
    \/ ApplyExchange
    \/ ApplyRestore
    \/ ApplyNormalize
    \/ ApplyBuildUri

SpecApply == InitApply /\ [][NextApply]_vars

-----------------------------------------------------------------------------
(* Properties                                                              *)

RestoreUrl == AUTH_BASE_URL \o "/device"
IsSsoRequest(rq) == rq.url = SSO_URL
IsRestoreRequest(rq) == rq.url = RestoreUrl

PreconditionError ==
    Err(<<Msg("bearer token not set; SSO token exchange must run first", "", <<>>)>>)

(* C1: restore_device_secret on a client whose bearer_token is None fails  *)
(* with the precondition error and hands no request to the transport; and  *)
(* a restore request is in the log only if bearer_token is set and an      *)
(* earlier SSO request was answered with a readable success response.      *)
C1_RestoreNeedsBearer ==
    /\ (call.op = "restore_device_secret" /\ call.before = None)
        => (call.ret = PreconditionError /\ call.sent = <<>>)
    /\ \A i \in 1..Len(requests) :
        IsRestoreRequest(requests[i]) =>
            /\ IsSome(bearer_token)
            /\ \E j \in 1..(i - 1) :
                /\ IsSsoRequest(requests[j])
                /\ received[j].kind = "response"
                /\ received[j].response.readable
                /\ is_success(received[j].response.status)

(* a failed exchange, then restore on the still token-less client *)
C1_Witness ==
    /\ call.op = "restore_device_secret" /\ call.before = None
    /\ Len(requests) = 1 /\ IsSsoRequest(requests[1])
    /\ call.ret = PreconditionError

IsBlank(text) == \A k \in 1..Len(text) : text[k] \in White

FieldNames == <<"session token", "authenticator serial", "restore code">>

(* C2: when the line read at a prompt is empty or all whitespace, run      *)
(* returns "<field> is required" for that field at once, and in that and   *)
(* every later state of the run no HTTP request has been sent.             *)
C2_EmptyInputNoRequest ==
    \A i \in 1..Len(stdin) :
        (stdin[i].kind = "line" /\ IsBlank(stdin[i].line)) =>
            /\ result = Err(<<Msg("{field_name} is required", FieldNames[i], <<>>)>>)
            /\ pc = "done"
            /\ requests = <<>> /\ received = <<>>
            /\ Len(stdin) = i

(* two inputs accepted, the restore code all whitespace *)
C2_Witness ==
    /\ Len(stdin) = 3
    /\ stdin[3] = [kind |-> "line", line |-> <<" ", "\n">>]
    /\ IsErr(result)

SsoCount == Cardinality({i \in 1..Len(requests) : IsSsoRequest(requests[i])})
RestoreCount == Cardinality({i \in 1..Len(requests) : IsRestoreRequest(requests[i])})

(* an answer that cannot be a success: no response, an unreadable body or  *)
(* a status outside 200..299                                               *)
FailedAnswer(o) ==
    \/ o.kind = "transport_error"
    \/ ~o.response.readable
    \/ o.response.status < 200
    \/ o.response.status > 299

C3_State ==
    /\ SsoCount <= 1 /\ RestoreCount <= 1
    /\ Len(requests) = SsoCount + RestoreCount
    /\ RestoreCount = 1 =>
        /\ IsSsoRequest(requests[1]) /\ IsRestoreRequest(requests[2])
        /\ ~FailedAnswer(received[1])
        /\ IsSome(bearer_token)
    /\ (result # None) <=> (pc = "done")
    /\ \A i \in 1..Len(stdin) :
        (stdin[i].kind # "line" \/ IsBlank(stdin[i].line)) =>
            (IsErr(result) /\ Len(stdin) = i /\ requests = <<>>)
    /\ (Len(received) >= 1 /\ FailedAnswer(received[1])) =>
            (IsErr(result) /\ Len(requests) = 1 /\ device_secret = None)
    /\ (Len(received) >= 2 /\ FailedAnswer(received[2])) =>
            (IsErr(result) /\ device_secret = None /\ base32_secret = None)
    /\ IsErr(result) => (base32_secret = None /\ Len(stdout) <= 3)

(* C3: no retry and no recovery: at most one SSO and one restore request,  *)
(* the restore request only after a successful SSO exchange; a failed      *)
(* step (terminal, validation, exchange, restore, decoding) makes run      *)
(* return an error with no later step's effect, and nothing happens once   *)
(* run has returned.                                                       *)
C3_NoRetryFailFast == []C3_State /\ [][result = None]_vars

(* the restore request failed in transport after a successful exchange *)
C3_Witness ==
    /\ Len(requests) = 2 /\ Len(received) = 2
    /\ received[2].kind = "transport_error"
    /\ IsErr(result)

IsPromptLine(line) == line.fmt = "{label}"

(* C4: a line other than the three prompts is on stdout only when run has  *)
(* returned Ok after both requests and the conversion; on every error      *)
(* return stdout holds prompts only and no text starting "otpauth://".     *)
C4_NoPartialOutput ==
    /\ (\E i \in 1..Len(stdout) : ~IsPromptLine(stdout[i])) =>
        /\ result = Ok(Unit)
        /\ Len(requests) = 2
        /\ IsSome(device_secret) /\ IsSome(base32_secret)
        /\ Len(stdout) = 8
    /\ IsErr(result) =>
        \A i \in 1..Len(stdout) :
            /\ IsPromptLine(stdout[i])
            /\ \A a \in 1..Len(stdout[i].args) :
                ~StartsWith(stdout[i].args[a], OtpauthPrefix)

(* the last step that can fail has failed: the secret is not hex *)
C4_Witness ==
    /\ IsErr(result)
    /\ IsSome(device_secret)
    /\ Len(stdout) = 3

StatusText(status) ==
    CASE status = 200 -> <<"2", "0", "0">>
      [] status = 204 -> <<"2", "0", "4">>
      [] status = 401 -> <<"4", "0", "1">>

SuccessStatus(status) == status \in 200..299

(* the content types of the environment that contain "json" in any case *)
JsonTypes == {Some(ApplicationJson), Some(TextJsonMixedCase)}

ShownType(ct) == IF ct \in {None, Some(<<>>)}
                 THEN <<"(", "m", "i", "s", "s", "i", "n", "g", ")">> ELSE ct.val

IsPrefix(p, text) == Len(p) <= Len(text) /\ \A k \in 1..Len(p) : p[k] = text[k]

AppliedTo(fn) == call.op = "applied" /\ call.fn = fn

(* C5: for a response whose body was read, parse_json_response answers in  *)
(* this order: a status outside 200..299 gives the HTTP-status error with   *)
(* the status code and a prefix of the body, whatever the content type and  *)
(* body; else a content type without "json" (absent shown as "(missing)")   *)
(* gives the non-JSON error, whatever the body; only a success status with  *)
(* a JSON content type gives the parsed value or the parse error.           *)
C5_ClassificationOrder ==
    (AppliedTo("parse_json_response") /\ call.arg.response.readable) =>
        LET r == call.arg.response
            ret == call.ret
            fmt == IF IsErr(ret) THEN ret.chain[1].fmt ELSE "ok"
        IN
        /\ ~SuccessStatus(r.status) =>
            /\ fmt = "{label} failed with HTTP {}. Response: {}"
            /\ ret.chain[1].what = call.arg.label
            /\ ret.chain[1].args[1] = StatusText(r.status)
            /\ IsPrefix(ret.chain[1].args[2], r.body)
            /\ Len(ret.chain) = 1
        /\ (SuccessStatus(r.status) /\ r.content_type \notin JsonTypes) =>
            /\ fmt = "{label} returned non-JSON content (Content-Type: {}). Response: {}"
            /\ ret.chain[1].what = call.arg.label
            /\ ret.chain[1].args[1] = ShownType(r.content_type)
            /\ IsPrefix(ret.chain[1].args[2], r.body)
            /\ Len(ret.chain) = 1
        /\ (SuccessStatus(r.status) /\ r.content_type \in JsonTypes) =>
            fmt \in {"ok", "failed to parse {label} JSON response"}
        /\ (r.body = Html /\ SuccessStatus(r.status) /\ r.content_type \in JsonTypes) =>
            fmt = "failed to parse {label} JSON response"

(* a 401 answered with an HTML page is reported as status 401 *)
C5_Witness ==
    /\ AppliedTo("parse_json_response")
    /\ call.arg.label = "restore request"
    /\ call.arg.response = [status |-> 401, content_type |-> Some(TextHtml),
                            body |-> Html, readable |-> TRUE]
    /\ call.ret = Err(<<Msg("{label} failed with HTTP {}. Response: {}", "restore request",
                            <<<<"4", "0", "1">>, Html>>)>>)

(* the SSO bodies of the environment whose access_token is a string that   *)
(* is not empty after trimming, with that token                            *)
TokenOfBody ==
    {<<JsonObject(AccessTokenField, Quote(<<"t", "k">>)), <<"t", "k">>>>,
     <<JsonObject(AccessTokenField, Quote(<<" ", "t", "2", " ">>)), <<"t", "2">>>>,
     <<<<" ", "{">> \o Quote(<<"x">>) \o <<":", "1", ",", " ">>
          \o Quote(AccessTokenField) \o <<" ", ":", " ">> \o Quote(<<"t", "k">>)
          \o <<"}", "\n">>, <<"t", "k">>>>}

(* those whose access_token is missing, null, empty or all whitespace *)
NoTokenBodies ==
    {JsonObject(AccessTokenField, Quote(<<>>)),
     JsonObject(AccessTokenField, Quote(<<" ", " ">>)),
     JsonObject(AccessTokenField, JsonNull),
     <<"{", "}">>}

MissingTokenError ==
    Err(<<Msg("SSO response did not include access_token", "", <<>>)>>)

GoodAnswer(o) ==
    /\ o.kind = "response" /\ o.response.readable
    /\ SuccessStatus(o.response.status)
    /\ o.response.content_type \in JsonTypes

(* C6: exchange_session_token returns Ok exactly when the answer has a     *)
(* success status, a JSON content type and a body with a non-blank         *)
(* access_token string, and then stores the trimmed token; with the token  *)
(* missing, null, empty or blank it returns the missing-token error and    *)
(* leaves bearer_token as it was.                                          *)
C6_ExchangeNeedsToken ==
    AppliedTo("exchange_session_token") =>
        LET o == call.arg.outcome
            r == call.ret
        IN
        /\ IsOk(r.ret) <=>
            (GoodAnswer(o) /\ \E p \in TokenOfBody : p[1] = o.response.body)
        /\ IsOk(r.ret) =>
            \E p \in TokenOfBody :
                p[1] = o.response.body /\ r.bearer_token = Some(p[2])
        /\ (GoodAnswer(o) /\ o.response.body \in NoTokenBodies) =>
            (r.ret = MissingTokenError /\ r.bearer_token = call.arg.bearer)

(* HTTP 200, JSON, {"access_token":""} *)
C6_Witness ==
    /\ AppliedTo("exchange_session_token")
    /\ call.arg.outcome.kind = "response"
    /\ call.arg.outcome.response =
        [status |-> 200, content_type |-> Some(ApplicationJson),
         body |-> JsonObject(AccessTokenField, Quote(<<>>)), readable |-> TRUE]
    /\ call.ret.ret = MissingTokenError
    /\ call.ret.bearer_token = call.arg.bearer

(* the messages that say which step of run failed *)
NamesStep(m) ==
    \/ m.what \in {"session token", "authenticator serial", "restore code"}
    \/ m.fmt \in {"failed to flush stdout", "failed to read input",
                  "failed to build HTTP client"}
    \/ m.what \in {"SSO token exchange", "restore request", RestoreUrl}
    \/ m.fmt \in {"request failed for Battle.net SSO token exchange",
                  "SSO response did not include access_token",
                  "bearer token not set; SSO token exchange must run first",
                  "restore response missing deviceSecret",
                  "deviceSecret is not valid hex"}

(* C7: every error run returns carries, somewhere in its chain, a context  *)
(* that says which operation failed.                                       *)
C7_ErrorsNameOperation ==
    IsErr(result) => \E k \in 1..Len(result.chain) : NamesStep(result.chain[k])

(* the serial and restore code typed at the prompts, the token and secret  *)
(* in the answers of the servers                                           *)
TypedText(line) ==
    LET first == CHOOSE a \in 1..Len(line) : line[a] \notin White /\
                     \A k \in 1..(a - 1) : line[k] \in White
        last  == CHOOSE b \in 1..Len(line) : line[b] \notin White /\
                     \A k \in (b + 1)..Len(line) : line[k] \in White
    IN [k \in 1..(last - first + 1) |-> line[first + k - 1]]

SecretOfBody ==
    {<<JsonObject(DeviceSecretField, Quote(<<"0", "a">>)), <<"0", "a">>>>,
     <<JsonObject(DeviceSecretField, Quote(<<" ", "D", "e", "a", "d", "B", "E", " ">>)),
       <<"D", "e", "a", "d", "B", "E">>>>}

(* C8: when run returns Ok, stdout is the three prompts followed by the    *)
(* success line, the serial as typed, the fixed TOTP settings and the URI  *)
(* build_otpauth_uri(serial, Base32 of the trimmed deviceSecret of this    *)
(* run's restore answer); the restore request carried the same serial and  *)
(* the bearer token of this run's SSO answer.                              *)
C8_SuccessReport ==
    result = Ok(Unit) =>
        LET sn == TypedText(stdin[2].line)
            rc == TypedText(stdin[3].line)
        IN
        \E t \in TokenOfBody, d \in SecretOfBody :
            /\ received[1].response.body = t[1]
            /\ received[2].response.body = d[1]
            /\ requests[2].authorization = Some(Bearer \o t[2])
            /\ requests[2].body = [serial |-> sn, restoreCode |-> rc]
            /\ IsOk(hex_to_base32_nopad_upper(d[2]))
            /\ SubSeq(stdout, 4, Len(stdout)) =
                <<Msg("\nBattle.net export succeeded\n", "", <<>>),
                  Msg("Serial: {serial}\n", "", <<sn>>),
                  Msg("TOTP settings: SHA1 / 8 digits / 30s\n", "", <<>>),
                  Msg("\notpauth URI (paste into your authenticator app):\n", "", <<>>),
                  Msg("{otpauth}\n", "", <<build_otpauth_uri(sn,
                          hex_to_base32_nopad_upper(d[2]).val)>>)>>
            /\ \A i \in 1..3 : IsPromptLine(stdout[i])

(* serial "ST=ab" typed with spaces around it, secret " DeadBE " *)
C8_Witness ==
    /\ result = Ok(Unit)
    /\ stdin[2].line = <<" ", " ", "S", "T", "=", "a", "b", " ", "\n">>
    /\ stdin[3].line = <<"c", "9", "\r", "\n">>
    /\ device_secret = Some(<<"D", "e", "a", "d", "B", "E">>)
    /\ stdout[8].args[1] =
        OtpauthPrefix \o <<"S", "T", "=", "a", "b">> \o OtpauthSecret
            \o <<"3", "2", "W", "3", "4">> \o OtpauthSuffix

HexDigitChars == {"0","1","2","3","4","5","6","7","8","9",
                  "a","b","c","d","e","f","A","B","C","D","E","F"}

IsHexText(text) ==
    Len(text) % 2 = 0 /\ \A k \in 1..Len(text) : text[k] \in HexDigitChars

(* the restore bodies of the environment without a usable deviceSecret *)
NoSecretBodies ==
    {JsonObject(DeviceSecretField, Quote(<<>>)),
     JsonObject(DeviceSecretField, Quote(<<" ">>)),
     JsonObject(DeviceSecretField, JsonNull),
     <<"{", "}">>}

(* C9: the device secret run holds is never empty and has no surrounding   *)
(* whitespace; a missing, null, empty or blank deviceSecret ends run with  *)
(* "restore response missing deviceSecret"; a Base32 secret exists only    *)
(* for a device secret that is non-empty, even-length, all-hex text.       *)
C9_EncodeOnlyValidSecret ==
    /\ IsSome(device_secret) =>
        /\ device_secret.val # <<>>
        /\ device_secret.val[1] \notin White
        /\ device_secret.val[Len(device_secret.val)] \notin White
    /\ (Len(received) = 2 /\ GoodAnswer(received[2])
            /\ received[2].response.body \in NoSecretBodies) =>
        /\ result = Err(<<Msg("restore response missing deviceSecret", "", <<>>)>>)
        /\ device_secret = None
    /\ IsSome(base32_secret) =>
        /\ IsSome(device_secret)
        /\ device_secret.val # <<>>
        /\ IsHexText(device_secret.val)

(* a secret that is returned by restore and is not hex: no Base32 secret *)
C9_Witness ==
    /\ device_secret = Some(<<"z", "z">>)
    /\ base32_secret = None
    /\ result = Err(<<Msg("deviceSecret is not valid hex", "", <<>>),
                      Msg("Invalid character", "", <<>>)>>)

(* the value of a hex digit, by the table of RFC 4648 section 8 *)
HexDigitValue(c) ==
    CASE c = "0" -> 0 [] c = "1" -> 1 [] c = "2" -> 2 [] c = "3" -> 3
      [] c = "4" -> 4 [] c = "5" -> 5 [] c = "6" -> 6 [] c = "7" -> 7
      [] c = "8" -> 8 [] c = "9" -> 9
      [] c \in {"a", "A"} -> 10 [] c \in {"b", "B"} -> 11
      [] c \in {"c", "C"} -> 12 [] c \in {"d", "D"} -> 13
      [] c \in {"e", "E"} -> 14 [] c \in {"f", "F"} -> 15

BytesDenoted(text) ==
    [k \in 1..(Len(text) \div 2) |->
        16 * HexDigitValue(text[2 * k - 1]) + HexDigitValue(text[2 * k])]

(* Base32 decoding (RFC 4648 section 6, no padding): the symbols' 5-bit    *)
(* values are concatenated and cut into bytes; the text is rejected for a  *)
(* symbol outside the alphabet, a length no byte string encodes to, or     *)
(* non-zero bits after the last whole byte.                                *)
SymbolValue(c) ==
    IF \E v \in 1..32 : Base32Alphabet[v] = c
    THEN (CHOOSE v \in 1..32 : Base32Alphabet[v] = c) - 1
    ELSE -1

SymbolBit(text, i) ==
    (SymbolValue(text[((i - 1) \div 5) + 1]) \div (2 ^ (4 - ((i - 1) % 5)))) % 2

Base32Decode(text) ==
    LET n == (5 * Len(text)) \div 8 IN
    IF \/ \E k \in 1..Len(text) : SymbolValue(text[k]) < 0
       \/ (Len(text) % 8) \in {1, 3, 6}
       \/ \E i \in (8 * n + 1)..(5 * Len(text)) : SymbolBit(text, i) # 0
    THEN [ok |-> FALSE]
    ELSE [ok |-> TRUE,
          bytes |-> [k \in 1..n |->
              128 * SymbolBit(text, 8 * k - 7) + 64 * SymbolBit(text, 8 * k - 6)
              + 32 * SymbolBit(text, 8 * k - 5) + 16 * SymbolBit(text, 8 * k - 4)
              + 8 * SymbolBit(text, 8 * k - 3) + 4 * SymbolBit(text, 8 * k - 2)
              + 2 * SymbolBit(text, 8 * k - 1) + SymbolBit(text, 8 * k)]]

(* the text between the leading and the trailing whitespace *)
Unpadded(text) == IF IsBlank(text) THEN <<>> ELSE TypedText(text)

(* C10: for every input that is, between optional surrounding whitespace,  *)
(* an even number of hex digits of either case, hex_to_base32_nopad_upper  *)
(* returns Ok, Base32-decoding the result gives the bytes the digits       *)
(* denote, and the input with its letters lowered gives the same result.   *)
C10_HexBase32RoundTrip ==
    (AppliedTo("hex_to_base32_nopad_upper") /\ IsHexText(Unpadded(call.arg))) =>
        /\ IsOk(call.ret)
        /\ Base32Decode(call.ret.val) =
            [ok |-> TRUE, bytes |-> BytesDenoted(Unpadded(call.arg))]
        /\ call.ret = hex_to_base32_nopad_upper(ToAsciiLowercase(call.arg))

(* " aF0A ": mixed case, surrounded by spaces, two bytes AF 0A *)
C10_Witness ==
    /\ AppliedTo("hex_to_base32_nopad_upper")
    /\ call.arg = <<" ", "a", "F", "0", "A", " ">>
    /\ call.ret = Ok(<<"V", "4", "F", "A">>)

NotHexError(cause) ==
    Err(<<Msg("deviceSecret is not valid hex", "", <<>>), Msg(cause, "", <<>>)>>)

(* C11: for every input that, once trimmed, has odd length or holds a      *)
(* character that is no hex digit, hex_to_base32_nopad_upper returns the   *)
(* error "deviceSecret is not valid hex" and no Base32 text.               *)
C11_InvalidHexFails ==
    (AppliedTo("hex_to_base32_nopad_upper") /\ ~IsHexText(Unpadded(call.arg))) =>
        /\ IsErr(call.ret)
        /\ call.ret \in {NotHexError("Odd number of digits"),
                         NotHexError("Invalid character")}
        /\ (Len(Unpadded(call.arg)) % 2 = 1) =>
                call.ret = NotHexError("Odd number of digits")

(* "0g" (a non-digit, even length) between spaces *)
C11_Witness ==
    /\ AppliedTo("hex_to_base32_nopad_upper")
    /\ call.arg = <<" ", "0", "g", " ">>
    /\ call.ret = NotHexError("Invalid character")

Base32Chars == {"A","B","C","D","E","F","G","H","I","J","K","L","M","N","O","P","Q",
                "R","S","T","U","V","W","X","Y","Z","2","3","4","5","6","7"}

(* the least number of 5-bit symbols that hold n bytes *)
SymbolsFor(n) == CHOOSE m \in 0..(2 * n) : 5 * m >= 8 * n /\ 5 * (m - 1) < 8 * n

(* C12: every Ok result of hex_to_base32_nopad_upper consists of the       *)
(* characters A-Z and 2-7 only (no '=', no lower case) and, for the n      *)
(* bytes of the input, has ceil(8n/5) characters.                          *)
C12_Base32Shape ==
    (AppliedTo("hex_to_base32_nopad_upper") /\ IsOk(call.ret)) =>
        /\ \A k \in 1..Len(call.ret.val) : call.ret.val[k] \in Base32Chars
        /\ Len(call.ret.val) = SymbolsFor(Len(Unpadded(call.arg)) \div 2)

(* three bytes AF 0A 0A: five symbols, the last one zero-filled *)
C12_Witness ==
    /\ AppliedTo("hex_to_base32_nopad_upper")
    /\ call.arg = <<"a", "F", "0", "A", "0", "a">>
    /\ call.ret = Ok(<<"V", "4", "F", "A", "U">>)

SessionPrefixes == {<<"S", "T", "=">>, <<"s", "t", "=">>}

HasSessionPrefix(text) == \E p \in SessionPrefixes : IsPrefix(p, text)

WithoutSessionPrefix(text) ==
    IF HasSessionPrefix(text) THEN [k \in 1..(Len(text) - 3) |-> text[k + 3]] ELSE text

BareToken(input) == Unpadded(WithoutSessionPrefix(Unpadded(input)))

(* C13: normalize_session_token returns its input with the surrounding      *)
(* whitespace removed, then one leading "ST=" or "st=" removed if present,  *)
(* then the surrounding whitespace removed again; an input with neither    *)
(* padding nor prefix comes back unchanged; "  ST=abc123  " and "abc123"   *)
(* both give "abc123"; and the token field of the SSO request that         *)
(* exchange_session_token sends holds that value.                          *)
C13_NormalizeSessionToken ==
    /\ AppliedTo("normalize_session_token") =>
        /\ call.ret = BareToken(call.arg)
        /\ (Unpadded(call.arg) = call.arg /\ ~HasSessionPrefix(call.arg))
            => call.ret = call.arg
        /\ call.arg \in {<<" ", " ", "S", "T", "=", "a", "b", "c", "1", "2", "3", " ", " ">>,
                         <<"a", "b", "c", "1", "2", "3">>}
            => call.ret = <<"a", "b", "c", "1", "2", "3">>
    /\ AppliedTo("exchange_session_token") =>
        /\ Len(call.ret.sent) = 1
        /\ call.ret.sent[1].body.token = BareToken(call.arg.session_token)

C13_Witness ==
    /\ AppliedTo("normalize_session_token")
    /\ call.arg = <<"s", "t", "=", " ", "a">>
    /\ call.ret = <<"a">>

ExampleSerial == <<"1", "2", "3", "4", "-", "5", "6", "7", "8", "-", "9",
                   "0", "1", "2">>
ExampleSecret == <<"J", "B", "S", "W", "Y", "3", "D", "P", "E", "H", "P",
                   "K", "3", "P", "X", "P">>

(* C14: build_otpauth_uri returns exactly                                   *)
(* otpauth://totp/Battle.net:<serial>?secret=<secret>&issuer=Battle.net     *)
(* &digits=8&algorithm=SHA1&period=30, with the serial and the secret put  *)
(* in character for character (no escaping of spaces or "&"), as in the    *)
(* example of serial 1234-5678-9012 and secret JBSWY3DPEHPK3PXP.           *)
C14_OtpauthTemplate ==
    AppliedTo("build_otpauth_uri") =>
        /\ call.ret =
              <<"o", "t", "p", "a", "u", "t", "h", ":", "/", "/", "t", "o",
                  "t", "p", "/", "B", "a", "t", "t", "l", "e", ".", "n", "e",
                  "t", ":">>
              \o call.arg.serial
              \o <<"?", "s", "e", "c", "r", "e", "t", "=">>
              \o call.arg.base32_secret
              \o <<"&", "i", "s", "s", "u", "e", "r", "=", "B", "a", "t", "t",
                  "l", "e", ".", "n", "e", "t", "&", "d", "i", "g", "i", "t",
                  "s", "=", "8", "&", "a", "l", "g", "o", "r", "i", "t", "h",
                  "m", "=", "S", "H", "A", "1", "&", "p", "e", "r", "i", "o",
                  "d", "=", "3", "0">>
        /\ (call.arg.serial = ExampleSerial /\ call.arg.base32_secret = ExampleSecret)
            => call.ret =
              <<"o", "t", "p", "a", "u", "t", "h", ":", "/", "/", "t", "o",
                  "t", "p", "/", "B", "a", "t", "t", "l", "e", ".", "n", "e",
                  "t", ":", "1", "2", "3", "4", "-", "5", "6", "7", "8", "-",
                  "9", "0", "1", "2", "?", "s", "e", "c", "r", "e", "t", "=",
                  "J", "B", "S", "W", "Y", "3", "D", "P", "E", "H", "P", "K",
                  "3", "P", "X", "P", "&", "i", "s", "s", "u", "e", "r", "=",
                  "B", "a", "t", "t", "l", "e", ".", "n", "e", "t", "&", "d",
                  "i", "g", "i", "t", "s", "=", "8", "&", "a", "l", "g", "o",
                  "r", "i", "t", "h", "m", "=", "S", "H", "A", "1", "&", "p",
                  "e", "r", "i", "o", "d", "=", "3", "0">>

C14_Witness ==
    /\ AppliedTo("build_otpauth_uri")
    /\ call.arg = [serial |-> <<"1", " ">>, base32_secret |-> <<"&", "A">>]
    /\ Len(call.ret) = 90
    /\ SubSeq(call.ret, 27, 36) = <<"1", " ", "?", "s", "e", "c", "r", "e", "t", "=">>

DiagnosticFormats ==
    {"{label} failed with HTTP {}. Response: {}",
     "{label} returned non-JSON content (Content-Type: {}). Response: {}"}

(* an answer that was read and has a failure status or a non-JSON type *)
Diagnosed(o) ==
    /\ o.kind = "response" /\ o.response.readable
    /\ ~SuccessStatus(o.response.status) \/ o.response.content_type \notin JsonTypes

BodyCaps ==
    {[fn |-> "exchange_session_token", cap |-> 500],
     [fn |-> "restore_device_secret", cap |-> 1000]}

(* C15: the error of a status failure or of a non-JSON answer shows a      *)
(* prefix of the response body of at most 500 characters for the SSO       *)
(* exchange and at most 1000 for the restore; a body no longer than the    *)
(* cap is shown in full.                                                   *)
C15_BodyPrefixInDiagnostics ==
    \A op \in BodyCaps :
        (AppliedTo(op.fn) /\ call.ret.sent # <<>> /\ Diagnosed(call.arg.outcome)) =>
            LET body == call.arg.outcome.response.body
                head == call.ret.ret.chain[1]
                shown == head.args[2]
            IN
            /\ IsErr(call.ret.ret)
            /\ head.fmt \in DiagnosticFormats
            /\ IsPrefix(shown, body)
            /\ Len(shown) <= op.cap
            /\ Len(body) <= op.cap => shown = body

C15_Witness ==
    /\ AppliedTo("restore_device_secret")
    /\ call.ret.sent # <<>>
    /\ Diagnosed(call.arg.outcome)
    /\ Len(call.arg.outcome.response.body) = 1001
    /\ call.arg.outcome.response.body[8] # call.arg.outcome.response.body[9]
    /\ Len(call.ret.ret.chain[1].args[2]) = 1000

Occurs(sub, text) ==
    \E k \in 0..(Len(text) - Len(sub)) : \A j \in 1..Len(sub) : text[k + j] = sub[j]

ShownTexts(lines) == UNION {{lines[i].args[j] : j \in 1..Len(lines[i].args)} :
                            i \in 1..Len(lines)}

(* C16: the restore code typed at the prompt is the restoreCode field of   *)
(* the restore request, and it occurs in no text that run prints and in no *)
(* text of the error run returns, whatever the servers answer.  Runs in    *)
(* which the serial or the Base32 secret happens to contain the restore    *)
(* code are left aside; the texts looked at are the run-time arguments of  *)
(* the messages.                                                           *)
C16_RestoreCodeNotShown ==
    (/\ IsSome(restore_code)
     /\ ~Occurs(restore_code.val, serial.val)
     /\ IsSome(base32_secret) => ~Occurs(restore_code.val, base32_secret.val)) =>
        /\ \A i \in 1..Len(requests) :
               IsRestoreRequest(requests[i]) =>
                   requests[i].body.restoreCode = TypedText(stdin[3].line)
        /\ \A t \in ShownTexts(stdout) : ~Occurs(restore_code.val, t)
        /\ IsErr(result) =>
               \A t \in ShownTexts(result.chain) : ~Occurs(restore_code.val, t)

SuccessfulExchange(j) ==
    /\ IsSsoRequest(requests[j])
    /\ GoodAnswer(received[j])
    /\ \E p \in TokenOfBody : p[1] = received[j].response.body

TokenGranted(j) ==
    (CHOOSE p \in TokenOfBody : p[1] = received[j].response.body)[2]

(* C17: every restore request in the log has the Authorization header      *)
(* "Bearer " followed by the trimmed access_token of the latest successful *)
(* SSO exchange made on the client before it; and bearer_token is always   *)
(* None or a text that is not empty and neither starts nor ends with       *)
(* whitespace.                                                             *)
C17_BearerIsLatestToken ==
    /\ \A i \in 1..Len(requests) :
           IsRestoreRequest(requests[i]) =>
               \E j \in 1..(i - 1) :
                   /\ SuccessfulExchange(j)
                   /\ \A k \in (j + 1)..(i - 1) : ~SuccessfulExchange(k)
                   /\ requests[i].authorization =
                          Some(<<"B", "e", "a", "r", "e", "r", " ">> \o TokenGranted(j))
    /\ \/ bearer_token = None
       \/ /\ IsSome(bearer_token)
          /\ bearer_token.val # <<>>
          /\ bearer_token.val[1] \notin White
          /\ bearer_token.val[Len(bearer_token.val)] \notin White

C17_Witness ==
    /\ Len(requests) = 3
    /\ SuccessfulExchange(1) /\ TokenGranted(1) = <<"t", "k">>
    /\ SuccessfulExchange(2) /\ TokenGranted(2) = <<"t", "2">>
    /\ IsRestoreRequest(requests[3])
    /\ requests[3].authorization = Some(<<"B", "e", "a", "r", "e", "r", " ", "t", "2">>)
    /\ bearer_token = Some(<<"t", "2">>)

(* C18: a call of exchange_session_token that returns an error leaves      *)
(* bearer_token as it was before the call, whichever error it is; a call   *)
(* of restore_device_secret leaves it as it was; it differs from its value *)
(* before the call only after an exchange that returned Ok; and as long as *)
(* no exchange has succeeded it is None and restore_device_secret returns  *)
(* the precondition error without sending a request.                       *)
C18_FailedExchangeKeepsBearer ==
    /\ (call.op = "exchange_session_token" /\ IsErr(call.ret))
        => bearer_token = call.before
    /\ call.op = "restore_device_secret" => bearer_token = call.before
    /\ (call.op # "none" /\ bearer_token # call.before)
        => (call.op = "exchange_session_token" /\ IsOk(call.ret))
    /\ (\A j \in 1..Len(requests) : ~SuccessfulExchange(j)) =>
        /\ bearer_token = None
        /\ call.op = "restore_device_secret"
            => (call.ret = PreconditionError /\ call.sent = <<>>)

C18_Witness ==
    /\ call.op = "exchange_session_token"
    /\ call.before = Some(<<"t", "k">>)
    /\ call.ret = MissingTokenError
    /\ call.outcome.response.body = <<"{", "}">>
    /\ bearer_token = Some(<<"t", "k">>)

(* C19: every SSO request in the log has a token field that is not empty, *)
(* also when the line typed at the session-token prompt is "ST=" or        *)
(* "st=  ", which is not blank but is empty once the prefix is removed.    *)
C19_SsoTokenNonEmpty ==
    \A i \in 1..Len(requests) :
        IsSsoRequest(requests[i]) => requests[i].body.token # <<>>

====
